---------------------------- MODULE Spec2Model ----------------------------
(***************************************************************************)
(* madonctl / madon: the paged fetch loop of the madon client library      *)
(* (apiCall, parseLink, getMultipleAccounts and its siblings) and the      *)
(* stream command of madonctl (streamRunE) on top of the library's         *)
(* StreamListener / readStream.                                            *)
(*                                                                         *)
(* Several state machines share the module.  FetchSpec is one call of a    *)
(* paged fetch against a server that answers each request as it likes;     *)
(* NotificationsSpec is the same for GetNotifications and AccountsSpec for *)
(* the followers subcommand of the accounts command, with its trim.        *)
(* LinkSpec is one call of parseLink and TextifySpec one call of Textify.  *)
(* Spec is one run of the stream command: the main goroutine, one read     *)
(* loop and one closing helper per connection, one forwarding goroutine    *)
(* per connection when several hashtags are given, and the remote peers;   *)
(* ListenerSpec is StreamListener called with any feed name.               *)
(***************************************************************************)
EXTENDS Integers, Sequences, FiniteSets, TLC

(***************************************************************************)
(* Bounds of the model.                                                    *)
(***************************************************************************)
\* the server answers at most this many requests of one fetch with a next link
MaxPages == 3
\* a page holds 0..MaxPageLen items (and the page sizes of the spec's scenario)
MaxPageLen == 2
\* lopt.Limit ranges over 0..MaxLimit
MaxLimit == 3
\* the stream command is given 0 (a user, public or local stream) to MaxTags hashtags
MaxTags == 2
\* a Link header given to parseLink by itself holds at most MaxEntries entries
MaxEntries == 2
\* the servers send at most MaxFrames frames in all
MaxFrames == 1
\* a hashtag argument holds at most MaxArgTags comma-separated names
MaxArgTags == 5
\* the --keep option of a command ranges over 0..MaxKeep
MaxKeep == 3
\* the body of the document given to Textify has at most MaxNodes children
MaxNodes == 3

\* const maximumHashtagStreamWS = 4
maximumHashtagStreamWS == 4

\* evChan := make(chan madon.StreamEvent, 10)
EvChanCap == 10

\* a Go pointer: nil is the empty tuple, a pointer to x is <<x>>
NIL == <<>>
Ptr(x) == <<x>>
Deref(p) == p[1]

(***************************************************************************)
(* Paged fetch: data.                                                      *)
(***************************************************************************)
\* type LimitParams struct { Limit int; SinceID, MaxID ActivityID; All bool }
LimitParams(limit, since, max, all) ==
    [Limit |-> limit, SinceID |-> since, MaxID |-> max, All |-> all]

\* type apiLinks struct { next, prev *LimitParams }; the zero value has both nil
apiLinks(next, prev) == [next |-> next, prev |-> prev]
NoLinks == apiLinks(NIL, NIL)

\* one match of the link regexp: the URL (well formed or not), the since_id,
\* max_id and limit values of its query, and the rel value
LinkEntry(url, since, max, lim, rel) ==
    [url |-> url, since |-> since, max |-> max, lim |-> lim, rel |-> rel]

\* strconv.Atoi on the limit strings the model's servers send
Atoi(s) ==
    CASE s = "0"  -> [ok |-> TRUE, n |-> 0]
      [] s = "1"  -> [ok |-> TRUE, n |-> 1]
      [] s = "2"  -> [ok |-> TRUE, n |-> 2]
      [] s = "20" -> [ok |-> TRUE, n |-> 20]
      [] OTHER    -> [ok |-> FALSE, n |-> 0]

\* a loop that also takes the entries that have neither bound
RECURSIVE parseEntriesKeepsUnbounded(_, _, _)
parseEntriesKeepsUnbounded(entries, i, al) ==
    IF i > Len(entries) THEN [al |-> al, err |-> FALSE]
    ELSE LET e == entries[i] IN
         IF e.url = "bad" THEN [al |-> al, err |-> TRUE]
         ELSE IF e.lim # "" /\ ~Atoi(e.lim).ok THEN [al |-> al, err |-> TRUE]
         ELSE LET lp == LimitParams(IF e.lim # "" THEN Atoi(e.lim).n ELSE 0,
                                    e.since, e.max, FALSE)
              IN  CASE e.rel = "prev" ->
                         parseEntriesKeepsUnbounded(entries, i + 1,
                                                    [al EXCEPT !.prev = Ptr(lp)])
                    [] e.rel = "next" ->
                         parseEntriesKeepsUnbounded(entries, i + 1,
                                                    [al EXCEPT !.next = Ptr(lp)])
                    [] OTHER -> parseEntriesKeepsUnbounded(entries, i + 1, al)

\* the body of parseLink's loop for the entries from position i on: al is the
\* apiLinks built so far; the first URL or limit error ends the parse
RECURSIVE parseEntries(_, _, _)
parseEntries(entries, i, al) ==
    IF i > Len(entries) THEN [al |-> al, err |-> FALSE]
    ELSE LET e == entries[i] IN
         IF e.url = "bad" THEN [al |-> al, err |-> TRUE]
         ELSE IF e.since = "" /\ e.max = "" THEN parseEntries(entries, i + 1, al)
         ELSE IF e.lim # "" /\ ~Atoi(e.lim).ok THEN [al |-> al, err |-> TRUE]
         ELSE LET lp == LimitParams(IF e.lim # "" THEN Atoi(e.lim).n ELSE 0,
                                    e.since, e.max, FALSE)
              IN  CASE e.rel = "prev" ->
                         parseEntries(entries, i + 1, [al EXCEPT !.prev = Ptr(lp)])
                    [] e.rel = "next" ->
                         parseEntries(entries, i + 1, [al EXCEPT !.next = Ptr(lp)])
                    [] OTHER -> parseEntries(entries, i + 1, al)

\* parseLink: no Link header gives (nil, nil)
parseLink(links) ==
    IF Len(links) = 0 THEN [al |-> NIL, err |-> FALSE]
    ELSE LET r == parseEntries(links, 1, NoLinks)
         IN  [al |-> Ptr(r.al), err |-> r.err]

\* the Link headers the model's servers send
NextEntry(p)   == LinkEntry("ok", "", IF p = 1 THEN "50" ELSE "30", "20", "next")
PrevEntry      == LinkEntry("ok", "70", "", "", "prev")
BadUrlHeader   == <<LinkEntry("bad", "", "", "", "next")>>
BadLimitHeader == <<LinkEntry("ok", "", "50", "x", "next")>>
LinkHeaders(p) ==
    { <<>>,                                          \* no Link header
      <<NextEntry(p)>>,                              \* a next cursor
      <<NextEntry(p), PrevEntry>>,                   \* next and prev
      <<PrevEntry>>,                                 \* prev only
      <<LinkEntry("ok", "", "", "20", "next")>>,     \* next without any bound
      BadUrlHeader,                                  \* malformed URL
      BadLimitHeader }                               \* limit is not an integer

\* whether a Link header yields a next cursor
GivesNext(h) ==
    LET r == parseLink(h) IN ~r.err /\ r.al # NIL /\ Deref(r.al).next # NIL

\* the items of the page answering request p: item i of the page is <<p, i>>
PageItems(p, n) == [i \in 1..n |-> <<p, i>>]
PageSizes == (0..MaxPageLen) \cup {5, 20}

\* what the server (and the transport) does with request p: the transport
\* fails, or the server answers with a Link header and a body that is a JSON
\* array of items, an error object {"error": "..."} or not JSON at all.  The
\* server has MaxPages pages: request MaxPages gets no next link.
Replies(p) ==
    [net : {"ok"}, link : {h \in LinkHeaders(p) : p < MaxPages \/ ~GivesNext(h)},
     kind : {"array"}, items : {PageItems(p, n) : n \in PageSizes}]
    \cup [net : {"ok"}, link : {<<>>, <<NextEntry(p)>>},
          kind : {"errobj", "garbage"}, items : {<<>>}]
    \cup [net : {"fail"}, link : {<<>>}, kind : {"array"}, items : {<<>>}]

(***************************************************************************)
(* Paged fetch: apiCall.                                                   *)
(***************************************************************************)
\* type apiCallParams map[string]string: the value of each key of the model,
\* nil for a key the map does not hold
apiCallParams(limit, since, max, loc) ==
    [limit |-> limit, since_id |-> since, max_id |-> max, local |-> loc,
     exclude_types |-> NIL]
\* make(apiCallParams)
NoParams == apiCallParams(NIL, NIL, NIL, NIL)

\* strconv.Itoa, for n >= 0
Digits == <<"0", "1", "2", "3", "4", "5", "6", "7", "8", "9">>
RECURSIVE Itoa(_)
Itoa(n) ==
    IF n < 10 THEN Digits[n + 1] ELSE Itoa(n \div 10) \o Digits[(n % 10) + 1]

\* the paging parameters apiCall writes into the request for limitOptions
\* (a parameter that is not written is nil)
PagingParams(limitOptions) ==
    IF limitOptions = NIL THEN [limit |-> NIL, since_id |-> NIL, max_id |-> NIL]
    ELSE LET lo == Deref(limitOptions) IN
         [limit    |-> IF lo.Limit > 0 THEN Ptr(Itoa(lo.Limit)) ELSE NIL,
          since_id |-> IF lo.SinceID # "" THEN Ptr(lo.SinceID) ELSE NIL,
          max_id   |-> IF lo.MaxID # "" THEN Ptr(lo.MaxID) ELSE NIL]

\* the map apiCall gives to prepareRequest: with limitOptions nil it is params
\* as given; otherwise params (a new map when params is nil) with the paging
\* parameters written into it
WithPaging(params, limitOptions) ==
    IF limitOptions = NIL THEN params
    ELSE LET m == IF params = NIL THEN NoParams ELSE Deref(params)
             w == PagingParams(limitOptions)
         IN  Ptr([m EXCEPT !.limit    = IF w.limit # NIL THEN w.limit ELSE @,
                           !.since_id = IF w.since_id # NIL THEN w.since_id ELSE @,
                           !.max_id   = IF w.max_id # NIL THEN w.max_id ELSE @])

\* the parameters of the request that is sent
Sent(params, limitOptions) ==
    LET q == WithPaging(params, limitOptions) IN
    IF q = NIL THEN NoParams ELSE Deref(q)

\* the caller's map after the call: a map is a reference, what apiCall writes
\* into it is written into the caller's map; a nil map stays nil
ParamsAfter(params, limitOptions) ==
    IF params = NIL THEN NIL ELSE WithPaging(params, limitOptions)

\* apiCall without its check for an error reply and with the decode error dropped
apiCallUnchecked(limitOptions, links, data, reply) ==
    IF reply.net = "fail"
    THEN [err |-> "API query failed", links |-> links, data |-> data]
    ELSE LET pl == parseLink(reply.link)
             ln == IF pl.al # NIL THEN Deref(pl.al) ELSE links
         IN  IF pl.err
             THEN [err |-> "cannot decode header links", links |-> links, data |-> data]
             ELSE [err |-> "", links |-> ln,
                   data |-> IF reply.kind = "array" THEN reply.items ELSE data]

\* apiCall, given the reply of restAPI: the error it returns ("" for nil), and
\* what it leaves in *links and in data
apiCall(limitOptions, links, data, reply) ==
    IF reply.net = "fail"
    THEN [err |-> "API query failed", links |-> links, data |-> data]
    ELSE LET pl == parseLink(reply.link)
             ln == IF pl.al # NIL THEN Deref(pl.al) ELSE links
         IN  IF pl.err
             THEN [err |-> "cannot decode header links", links |-> links, data |-> data]
             ELSE IF reply.kind = "errobj"
             THEN [err |-> "error reply", links |-> ln, data |-> data]
             ELSE IF reply.kind # "array"
             THEN [err |-> "cannot decode API response", links |-> ln, data |-> data]
             ELSE [err |-> "", links |-> ln, data |-> reply.items]

(***************************************************************************)
(* State.                                                                  *)
(***************************************************************************)
VARIABLES
    \* one call of getMultipleAccounts (getMultipleStatuses is the same loop;
    \* GetNotifications, GetLists and GetBlockedDomains are the same loop but
    \* for the parameter map of their continuation requests)
    fpc,            \* "first": before the first apiCall, "loop", "done": returned
    lopt,           \* the caller's *LimitParams
    params,         \* the caller's apiCallParams
    links,          \* var links apiLinks
    accounts,       \* var accounts []Account, the accumulator
    accountSlice,   \* var accountSlice []Account, the page of a continuation
    fret,           \* the slice returned
    ferr,           \* the error returned, "" for nil
    reqs,           \* the paging parameters of the requests issued so far
    resps,          \* the replies received so far
    \* one run of the accounts command (followers)
    opt,            \* opt := accountsOpts: the options all, limit and keep
    accountList,    \* var accountList []madon.Account, once it is trimmed
    \* one call of parseLink
    ppc,            \* "call": before the call, "done": returned
    header,         \* the Link header it is given
    pLinks,         \* what it returns
    \* one call of Textify
    tpc,            \* "call": before the call, "done": returned
    body,           \* the children of the body element of the parsed document
    text,           \* the string it returns
    \* one run of streamRunE
    args,           \* the arguments of the command, until they are parsed
    streamName,     \* streamName, "" before the arguments are parsed
    tag,            \* tag, the parameter of the only stream
    hashTagList,    \* hashTagList, the parameters of several streams
    gClient,        \* madonInit has initialised the client
    nTags,          \* len(hashTagList); 0 for the user, public and local streams
    mpc,            \* where the main goroutine is
    opened,         \* the connections opened so far
    err,            \* var err error of streamRunE, "" for nil
    stop,           \* the stop channel is closed
    evChan,         \* the shared output channel: its buffer, and whether it is closed
    rpc,            \* per connection: where its readStream goroutine is
    rmsg,           \* per connection: what c.ReadJSON(&msg) last returned
    rev,            \* per connection: the event readStream is about to send
    frames,         \* the frames read so far, on all connections
    handed,         \* per connection: the events handed to its event channel so far
    connDone,       \* per connection: its doneCh is closed
    cpc,            \* per connection: where readStream's closing goroutine is
    fwpc,           \* per connection: where its forwarding goroutine is
    fwev,           \* per connection: the event the forwarding goroutine holds
    received,       \* per connection: the events the listen loop has processed
    doneRecv,       \* the values the listen loop has received from done
    panicked        \* the run-time panic that ended the process, "" for none

argVars == <<args, streamName, tag, hashTagList, gClient>>

streamVars == <<argVars, nTags, mpc, opened, err, stop, evChan, rpc, rmsg, rev,
                frames, handed, connDone, cpc, fwpc, fwev, received, doneRecv,
                panicked>>

cmdVars == <<opt, accountList>>

fetchVars == <<fpc, lopt, params, links, accounts, accountSlice, fret, ferr, reqs,
               resps, cmdVars>>

linkVars == <<ppc, header, pLinks>>

textVars == <<tpc, body, text>>

(***************************************************************************)
(* Paged fetch: getMultipleAccounts.                                       *)
(***************************************************************************)
\* the callers' limit options: none, or a page size / quota with or without All
Bounds == {<<"", "">>, <<"70", "">>, <<"", "90">>}
LimitOptions ==
    {NIL} \cup {Ptr(LimitParams(l, b[1], b[2], a)) :
                    l \in 0..MaxLimit, b \in Bounds, a \in BOOLEAN}

\* the callers' fixed parameters: no map, or a map with a parameter of theirs
FixedParams == {NIL, Ptr(apiCallParams(NIL, NIL, NIL, Ptr("true")))}

\* the options of a command that is not run
NoOpt == [all |-> FALSE, limit |-> 0, keep |-> 0]

FetchInit ==
    /\ fpc = "first"
    /\ lopt \in LimitOptions
    /\ params \in FixedParams
    /\ opt = NoOpt
    /\ accountList = <<>>
    /\ links = NoLinks
    /\ accounts = <<>>
    /\ accountSlice = <<>>
    /\ fret = <<>>
    /\ ferr = ""
    /\ reqs = <<>>
    /\ resps = <<>>

\* the loop condition with the quota applied even when All is set
MorePagesQuotaOnly ==
    /\ lopt # NIL
    /\ Deref(lopt).Limit > Len(accounts)
    /\ links.next # NIL

\* the loop condition with the quota compared off by one
MorePagesOffByOne ==
    /\ lopt # NIL
    /\ (Deref(lopt).All \/ Deref(lopt).Limit >= Len(accounts))
    /\ links.next # NIL

\* the loop condition: fetch more pages to reach our limit
MorePages ==
    /\ lopt # NIL
    /\ (Deref(lopt).All \/ Deref(lopt).Limit > Len(accounts))
    /\ links.next # NIL

\* what the fetch returns when a continuation request fails
ContinuationError(acc) == <<>>

\* the first request
FetchFirst ==
    /\ fpc = "first"
    /\ \E reply \in Replies(1) :
         LET r == apiCall(lopt, links, accounts, reply) IN
         /\ reqs' = Append(reqs, Sent(params, lopt))
         /\ params' = ParamsAfter(params, lopt)
         /\ resps' = Append(resps, reply)
         /\ links' = r.links
         /\ accounts' = r.data
         /\ IF r.err # ""
            THEN fpc' = "done" /\ fret' = <<>> /\ ferr' = r.err
            ELSE fpc' = "loop" /\ UNCHANGED <<fret, ferr>>
    /\ UNCHANGED <<lopt, accountSlice>>
    /\ UNCHANGED <<streamVars, linkVars, textVars, cmdVars>>

\* a turn of the loop without `links = apiLinks{}`
FetchMoreNoReset ==
    /\ fpc = "loop"
    /\ MorePages
    /\ \E reply \in Replies(Len(reqs) + 1) :
         LET newlopt == links.next
             r == apiCall(newlopt, links, accountSlice, reply) IN
         /\ reqs' = Append(reqs, Sent(params, newlopt))
         /\ params' = ParamsAfter(params, newlopt)
         /\ resps' = Append(resps, reply)
         /\ links' = r.links
         /\ IF r.err # ""
            THEN /\ fpc' = "done"
                 /\ fret' = ContinuationError(accounts)
                 /\ ferr' = r.err
                 /\ accountSlice' = r.data
                 /\ UNCHANGED accounts
            ELSE /\ accounts' = accounts \o r.data
                 /\ accountSlice' = <<>>
                 /\ UNCHANGED <<fpc, fret, ferr>>
    /\ UNCHANGED lopt
    /\ UNCHANGED <<streamVars, linkVars, textVars, cmdVars>>

\* one turn of the loop: a continuation request with the next cursor
FetchMore ==
    /\ fpc = "loop"
    /\ MorePages
    /\ \E reply \in Replies(Len(reqs) + 1) :
         LET newlopt == links.next
             r == apiCall(newlopt, NoLinks, accountSlice, reply) IN
         /\ reqs' = Append(reqs, Sent(params, newlopt))
         /\ params' = ParamsAfter(params, newlopt)
         /\ resps' = Append(resps, reply)
         /\ links' = r.links
         /\ IF r.err # ""
            THEN /\ fpc' = "done"
                 /\ fret' = ContinuationError(accounts)
                 /\ ferr' = r.err
                 /\ accountSlice' = r.data
                 /\ UNCHANGED accounts
            ELSE /\ accounts' = accounts \o r.data
                 /\ accountSlice' = <<>>
                 /\ UNCHANGED <<fpc, fret, ferr>>
    /\ UNCHANGED lopt
    /\ UNCHANGED <<streamVars, linkVars, textVars, cmdVars>>

\* the loop has ended (or lopt is nil): return accounts, nil
FetchReturn ==
    /\ fpc = "loop"
    /\ ~MorePages
    /\ fpc' = "done"
    /\ fret' = accounts
    /\ UNCHANGED <<lopt, params, links, accounts, accountSlice, ferr, reqs, resps>>
    /\ UNCHANGED <<streamVars, linkVars, textVars, cmdVars>>

FetchNext == FetchFirst \/ FetchMore \/ FetchReturn

(***************************************************************************)
(* Stream command: the arguments.                                          *)
(***************************************************************************)
\* Go strings are sequences of characters
user   == <<"u", "s", "e", "r">>
public == <<"p", "u", "b", "l", "i", "c">>
local  == <<"l", "o", "c", "a", "l">>

\* strings.Split(s, sep): the pieces of s between the occurrences of sep (and
\* the two ends of s), in their order
Split(s, sep) ==
    LET cuts == {0, Len(s) + 1} \cup {k \in 1..Len(s) : s[k] = sep}
        cut(j) == CHOOSE c \in cuts : Cardinality({d \in cuts : d < c}) = j
    IN  [j \in 1..(Cardinality(cuts) - 1) |->
            SubSeq(s, cut(j - 1) + 1, cut(j) - 1)]

\* strings.Join(list, sep)
RECURSIVE Join(_, _)
Join(list, sep) ==
    IF Len(list) = 0 THEN <<>>
    ELSE IF Len(list) = 1 THEN list[1]
    ELSE list[1] \o <<sep>> \o Join(Tail(list), sep)

\* the names given between the commas of a hashtag argument: nothing, a bare
\* prefix character, a name, a name with its prefix character
TagNames == {<<>>, <<"#">>, <<"a">>, <<":", "a">>}
TagLists == UNION {[1..n -> TagNames] : n \in 1..MaxArgTags}

\* the arguments the command is run with
StreamArgs ==
    {<<>>, <<user, user>>}
    \cup {<<w>> : w \in {<<>>, user, public, local, <<"a">>, <<"#">>, <<":">>}}
    \cup {<<(<<c>> \o Join(l, ","))>> : c \in {"#", ":"}, l \in TagLists}

\* what the parsing of the arguments gives: the stream to listen to, an error
\* that is returned, or a run-time panic
Parsed(name, t, list) ==
    [err |-> "", panic |-> "", streamName |-> name, tag |-> t, hashTagList |-> list]
Rejected(e) ==
    [err |-> e, panic |-> "", streamName |-> "", tag |-> <<>>, hashTagList |-> <<>>]
Panics(e) ==
    [err |-> "", panic |-> e, streamName |-> "", tag |-> <<>>, hashTagList |-> <<>>]

\* for i, h := range hashTagList: each turn reads h[0] first, which panics on
\* an empty h; it then cuts the prefix character off the name in the list, and
\* compares h (the name as it was, not the name in the list) with ""
stripTags(list) ==
    [panic |-> \E i \in 1..Len(list) : Len(list[i]) = 0,
     empty |-> \E i \in 1..Len(list) : Len(list[i]) > 0 /\ list[i] = <<>>,
     list  |-> [i \in 1..Len(list) |->
                  IF Len(list[i]) > 0 /\ list[i][1] \in {":", "#"}
                  THEN Tail(list[i]) ELSE list[i]]]

\* the cap compared with one name too many
TooManyOffByOne(list) == Len(list) > maximumHashtagStreamWS + 1

\* if len(hashTagList) > maximumHashtagStreamWS
TooMany(list) == Len(list) > maximumHashtagStreamWS

\* the first part of streamRunE: from args to streamName, tag and hashTagList
parseArgs(a) ==
    IF Len(a) = 0 THEN Parsed("user", <<>>, <<>>)
    ELSE IF Len(a) # 1 THEN Rejected("too many parameters")
    ELSE LET arg == a[1] IN
         IF arg = <<>> \/ arg = user THEN Parsed("user", <<>>, <<>>)
         ELSE IF arg = public THEN Parsed("public", <<>>, <<>>)
         ELSE IF arg = local THEN Parsed("public:local", <<>>, <<>>)
         ELSE IF arg[1] # ":" /\ arg[1] # "#" THEN Rejected("invalid argument")
         ELSE LET t == Tail(arg) IN
              IF Len(t) = 0 THEN Rejected("empty hashtag")
              ELSE LET r == stripTags(Split(t, ",")) IN
                   IF r.panic THEN Panics("index out of range")
                   ELSE IF r.empty THEN Rejected("empty hashtag")
                   ELSE IF TooMany(r.list)
                   THEN Rejected("too many hashtags")
                   ELSE Parsed("hashtag", t, r.list)

\* checks that let any name through that is neither hashtag nor list
openStreamAnyName(name, param) ==
    IF name \in {"hashtag", "list"} /\ param = <<>> THEN "ErrInvalidParameter" ELSE ""

\* the checks of openStream before it dials: the error it returns, "" for none
openStream(name, param) ==
    CASE name \in {"user", "public", "public:local", "direct"} -> ""
      [] name = "hashtag" -> IF param = <<>> THEN "ErrInvalidParameter" ELSE ""
      [] name = "list" -> IF param = <<>> THEN "ErrInvalidParameter" ELSE ""
      [] OTHER -> "ErrInvalidParameter"

(***************************************************************************)
(* Stream command: data.                                                   *)
(***************************************************************************)
ConnIds == 1..(IF MaxTags > 1 THEN MaxTags ELSE 1)

\* one websocket per hashtag, one for any other stream
NConn == IF nTags = 0 THEN 1 ELSE nTags

\* "Usual case: Only 1 stream" against "Several streams"
Several == nTags > 1

\* the frames a server sends: an event name and a payload that is the JSON
\* text of the entity, a string that is not such JSON, or not a string
FrameSet ==
    [Event : {"update", "notification", "delete", "other"},
     Payload : {"entity", "badjson", "notstring"}]

\* a decoding that passes on a frame of any name as a typed event
DecodeFrameAnyName(msg) ==
    IF msg.Event \in {"update", "notification"} /\ msg.Payload # "entity"
    THEN "error"
    ELSE IF msg.Event = "delete" /\ msg.Payload = "notstring" THEN "error"
    ELSE msg.Event

\* readStream's decoding of a frame: the name of the StreamEvent it sends
DecodeFrame(msg) ==
    CASE msg.Event = "update" ->
           IF msg.Payload = "entity" THEN "update" ELSE "error"
      [] msg.Event = "notification" ->
           IF msg.Payload = "entity" THEN "notification" ELSE "error"
      [] msg.Event = "delete" ->
           IF msg.Payload = "notstring" THEN "error" ELSE "delete"
      [] OTHER -> "error"

StreamEvent(i, k, name) == [conn |-> i, seq |-> k, Event |-> name]

\* what c.ReadJSON(&msg) returns: a frame in msg, or an error
NoMsg == [err |-> "", Event |-> "", Payload |-> ""]
Frame(msg) == [err |-> "", Event |-> msg.Event, Payload |-> msg.Payload]
ReadFailed(e) == [err |-> e, Event |-> "", Payload |-> ""]

\* the errors of c.ReadJSON: the peer has closed the connection with the
\* code of a normal closure, the frame is not the JSON text of a message
\* (the connection is as before), the connection is broken
ReadErrors ==
    {"websocket: close 1000 (normal)", "invalid character", "unexpected EOF"}

\* a test that takes no error for a normal closure
IsNormalCloseNever(e) == FALSE

\* strings.Contains(err.Error(), "close 1000 (normal)")
IsNormalClose(e) == e = "websocket: close 1000 (normal)"
NoEvent == StreamEvent(0, 0, "")

\* The goroutines and the peers can take a step: the process is alive (main has
\* not returned or exited, nothing has panicked).  getPrinter() and close(stop)
\* neither read nor write anything the goroutines of the model read or write
\* (stop is read by the helper goroutines only, whose step is part of the
\* closing of stop), so main takes these two steps as soon as it reaches them.
Running == mpc \notin {"exited", "getPrinter", "closeStop"} /\ panicked = ""

StreamInit ==
    /\ args \in StreamArgs
    /\ streamName = ""
    /\ tag = <<>>
    /\ hashTagList = <<>>
    /\ gClient = FALSE
    /\ nTags = 0
    /\ mpc = "args"
    /\ opened = 0
    /\ err = ""
    /\ stop = FALSE
    /\ evChan = [buf |-> <<>>, closed |-> FALSE]
    /\ rpc = [i \in ConnIds |-> "none"]
    /\ rmsg = [i \in ConnIds |-> NoMsg]
    /\ rev = [i \in ConnIds |-> NoEvent]
    /\ frames = 0
    /\ handed = [i \in ConnIds |-> 0]
    /\ connDone = [i \in ConnIds |-> FALSE]
    /\ cpc = [i \in ConnIds |-> "none"]
    /\ fwpc = [i \in ConnIds |-> "none"]
    /\ fwev = [i \in ConnIds |-> NoEvent]
    /\ received = [i \in ConnIds |-> <<>>]
    /\ doneRecv = 0
    /\ panicked = ""

vars == <<fetchVars, linkVars, textVars, streamVars>>

\* the other machine is not running
FetchIdle ==
    /\ fpc = "idle" /\ lopt = NIL /\ params = NIL /\ links = NoLinks /\ accounts = <<>>
    /\ accountSlice = <<>> /\ fret = <<>> /\ ferr = "" /\ reqs = <<>> /\ resps = <<>>
    /\ opt = NoOpt /\ accountList = <<>>

StreamIdle ==
    /\ args = <<>> /\ streamName = "" /\ tag = <<>> /\ hashTagList = <<>>
    /\ gClient = FALSE
    /\ nTags = 0 /\ mpc = "idle" /\ opened = 0 /\ err = "" /\ stop = FALSE
    /\ evChan = [buf |-> <<>>, closed |-> FALSE]
    /\ rpc = [i \in ConnIds |-> "none"]
    /\ rmsg = [i \in ConnIds |-> NoMsg]
    /\ rev = [i \in ConnIds |-> NoEvent]
    /\ frames = 0
    /\ handed = [i \in ConnIds |-> 0]
    /\ connDone = [i \in ConnIds |-> FALSE]
    /\ cpc = [i \in ConnIds |-> "none"]
    /\ fwpc = [i \in ConnIds |-> "none"]
    /\ fwev = [i \in ConnIds |-> NoEvent]
    /\ received = [i \in ConnIds |-> <<>>]
    /\ doneRecv = 0 /\ panicked = ""

LinkIdle == ppc = "idle" /\ header = <<>> /\ pLinks = [al |-> NIL, err |-> FALSE]

TextIdle == tpc = "idle" /\ body = <<>> /\ text = <<>>

\* the state in which getMultipleAccounts is entered
FetchStart == FetchInit /\ StreamIdle /\ LinkIdle /\ TextIdle

FetchSpec == FetchStart /\ [][FetchNext]_vars

(***************************************************************************)
(* The accounts command: accountSubcommandsRunE, case "followers".         *)
(***************************************************************************)
\* the options the command is run with (no --since-id, no --max-id)
AccountsOpts == [all : BOOLEAN, limit : 0..MaxLimit, keep : 0..MaxKeep]

\* var limOpts *madon.LimitParams, as the command builds it from its options
limOpts(o) ==
    IF o.all \/ o.limit > 0 THEN Ptr(LimitParams(o.limit, "", "", o.all)) ELSE NIL

\* a trim that keeps the last items
keepLast(list, k) ==
    IF k > 0 /\ Len(list) > k THEN SubSeq(list, Len(list) - k + 1, Len(list))
    ELSE list

\* if opt.keep > 0 && len(accountList) > int(opt.keep) {
\*     accountList = accountList[:opt.keep] }
keepFirst(list, k) == IF k > 0 /\ Len(list) > k THEN SubSeq(list, 1, k) ELSE list

\* gClient.GetAccountFollowers(opt.accountID, limOpts) is entered: the helper
\* hands getMultipleAccounts a new, empty parameter map
AccountsInit ==
    /\ fpc = "first"
    /\ opt \in AccountsOpts
    /\ lopt = limOpts(opt)
    /\ params = Ptr(NoParams)
    /\ links = NoLinks
    /\ accounts = <<>>
    /\ accountSlice = <<>>
    /\ fret = <<>>
    /\ ferr = ""
    /\ reqs = <<>>
    /\ resps = <<>>
    /\ accountList = <<>>

\* accountList, err = gClient.GetAccountFollowers(...) has returned: the trim
KeepTrim ==
    /\ fpc = "done"
    /\ accountList' = keepFirst(fret, opt.keep)
    /\ fpc' = "kept"
    /\ UNCHANGED <<lopt, params, links, accounts, accountSlice, fret, ferr, reqs,
                   resps, opt>>
    /\ UNCHANGED <<streamVars, linkVars, textVars>>

AccountsNext == FetchFirst \/ FetchMore \/ FetchReturn \/ KeepTrim

AccountsStart == AccountsInit /\ StreamIdle /\ LinkIdle /\ TextIdle

AccountsSpec == AccountsStart /\ [][AccountsNext]_vars

(***************************************************************************)
(* Paged fetch: GetNotifications.                                          *)
(***************************************************************************)
\* the excludeTypes the callers give: none, or one type
ExcludeTypes == {<<>>, <<"follow">>}

\* var params apiCallParams: a map is made only when there are types to
\* exclude; params[qID] = eType
notificationParams(excludeTypes) ==
    IF Len(excludeTypes) > 0
    THEN Ptr([NoParams EXCEPT !.exclude_types = Ptr(excludeTypes[1])])
    ELSE NIL

\* the callers' limit options (no since_id, no max_id)
NotificationLimits ==
    {NIL} \cup {Ptr(LimitParams(l, "", "", a)) : l \in 0..MaxLimit, a \in BOOLEAN}

NotificationsInit ==
    /\ fpc = "first"
    /\ lopt \in NotificationLimits
    /\ params \in {notificationParams(t) : t \in ExcludeTypes}
    /\ opt = NoOpt
    /\ accountList = <<>>
    /\ links = NoLinks
    /\ accounts = <<>>
    /\ accountSlice = <<>>
    /\ fret = <<>>
    /\ ferr = ""
    /\ reqs = <<>>
    /\ resps = <<>>

\* the map GetNotifications gives to the apiCall of a continuation
ContinuationParams(p) == NIL

\* one turn of the loop of GetNotifications: notifSlice is a new slice
NotificationsMore ==
    /\ fpc = "loop"
    /\ MorePages
    /\ \E reply \in Replies(Len(reqs) + 1) :
         LET newlopt == links.next
             r == apiCall(newlopt, NoLinks, <<>>, reply) IN
         /\ reqs' = Append(reqs, Sent(ContinuationParams(params), newlopt))
         /\ resps' = Append(resps, reply)
         /\ links' = r.links
         /\ IF r.err # ""
            THEN /\ fpc' = "done"
                 /\ fret' = ContinuationError(accounts)
                 /\ ferr' = r.err
                 /\ UNCHANGED accounts
            ELSE /\ accounts' = accounts \o r.data
                 /\ UNCHANGED <<fpc, fret, ferr>>
    /\ UNCHANGED <<lopt, params, accountSlice>>
    /\ UNCHANGED <<streamVars, linkVars, textVars, cmdVars>>

NotificationsNext == FetchFirst \/ NotificationsMore \/ FetchReturn

NotificationsStart == NotificationsInit /\ StreamIdle /\ LinkIdle /\ TextIdle

NotificationsSpec == NotificationsStart /\ [][NotificationsNext]_vars

(***************************************************************************)
(* parseLink by itself.                                                    *)
(***************************************************************************)
\* the matches of the link regexp in the Link headers of a response
LinkEntries ==
    [url : {"ok", "bad"}, since : {"", "70"}, max : {"", "50"},
     lim : {"", "20", "x"}, rel : {"next", "prev", "first"}]
Headers == UNION {[1..n -> LinkEntries] : n \in 0..MaxEntries}

LinkInit ==
    /\ ppc = "call"
    /\ header \in Headers
    /\ pLinks = [al |-> NIL, err |-> FALSE]

\* pLinks, err := parseLink(r.Headers["Link"])
ParseLinkCall ==
    /\ ppc = "call"
    /\ pLinks' = parseLink(header)
    /\ ppc' = "done"
    /\ UNCHANGED <<header, fetchVars, streamVars, textVars>>

LinkStart == LinkInit /\ FetchIdle /\ StreamIdle /\ TextIdle

LinkSpec == LinkStart /\ [][ParseLinkCall]_vars

(***************************************************************************)
(* html2text: Textify.                                                     *)
(***************************************************************************)
\* the characters of the model: U+00A0 is the one-character string "nbsp"
NBSP == "nbsp"
NL   == "\n"

\* var breakers = map[string]bool{...}
breakers == {"br", "div", "tr", "li", "p"}

\* the nodes html.Parse gives: text nodes and element nodes with children
TextNode(data) == [type |-> "text", name |-> "", data |-> data, kids |-> <<>>]
ElementNode(name, kids) ==
    [type |-> "element", name |-> name, data |-> <<>>, kids |-> kids]

\* strings.Trim(s, " \t")
Trim(s) ==
    LET keep == {k \in 1..Len(s) : s[k] \notin {" ", "\t"}} IN
    IF keep = {} THEN <<>>
    ELSE SubSeq(s, CHOOSE k \in keep : \A j \in keep : k <= j,
                   CHOOSE k \in keep : \A j \in keep : k >= j)

\* strings.TrimSpace(s)
TrimSpace(s) ==
    LET keep == {k \in 1..Len(s) : s[k] \notin {" ", "\t", NL, "\r", NBSP}} IN
    IF keep = {} THEN <<>>
    ELSE SubSeq(s, CHOOSE k \in keep : \A j \in keep : k <= j,
                   CHOOSE k \in keep : \A j \in keep : k >= j)

\* strings.Replace(s, "\u00a0", " ", -1)
ReplaceNBSP(s) == [k \in 1..Len(s) |-> IF s[k] = NBSP THEN " " ELSE s[k]]

\* the last byte of the buffer, "" for an empty buffer
Last(b) == IF Len(b) > 0 THEN b[Len(b)] ELSE ""

\* the text node branch of process: what the buffer holds after it
writeText(data, b) ==
    LET cleanData == ReplaceNBSP(Trim(data))
        last      == Last(b)
        prevSpace == Len(b) > 0 /\ last = " "
        nextSpace == Len(cleanData) > 0 /\ cleanData[1] = " "
    IN  IF prevSpace /\ nextSpace THEN b \o Tail(cleanData)
        ELSE IF Len(b) > 0 /\ last # NL /\ last # "@" /\ last # "#"
                /\ ~prevSpace /\ ~nextSpace
        THEN b \o <<" ">> \o cleanData
        ELSE b \o cleanData

\* "Remove previous space": the buffer without the spaces at its end
RECURSIVE dropSpaces(_)
dropSpaces(b) ==
    IF Len(b) > 0 /\ b[Len(b)] = " " THEN dropSpaces(SubSeq(b, 1, Len(b) - 1))
    ELSE b

\* the end of process: the newline after a breaker
break(n, b) ==
    IF Len(b) > 0 /\ Last(b) # NL /\ n.type = "element" /\ n.name \in breakers
    THEN dropSpaces(b) \o <<NL>>
    ELSE b

\* process(n, b, class), for text nodes and for elements other than head and a
RECURSIVE process(_, _)
RECURSIVE processChildren(_, _, _)
process(n, b) ==
    IF n.type = "text" THEN break(n, writeText(n.data, b))
    ELSE break(n, processChildren(n.kids, 1, b))

\* for c := n.FirstChild; c != nil; c = c.NextSibling { process(c, b, class) }
processChildren(kids, i, b) ==
    IF i > Len(kids) THEN b
    ELSE processChildren(kids, i + 1, process(kids[i], b))

\* the text of the documents: no newline characters
TextData ==
    {<<"a">>, <<" ">>, <<NBSP>>, <<"a", " ">>, <<" ", "a">>, <<NBSP, "a">>}

\* the children of the body: text nodes, <br/>, and div and p elements that
\* are empty or hold a <br/> or a text of one character
BodyNodes ==
    {TextNode(d) : d \in TextData}
    \cup {ElementNode("br", <<>>)}
    \cup {ElementNode(e, k) :
            e \in {"div", "p"},
            k \in {<<>>, <<ElementNode("br", <<>>)>>}
                   \cup {<<TextNode(<<c>>)>> : c \in {"a", " ", NBSP}}}

\* html.Parse gives no two text nodes in a row
Bodies ==
    {d \in UNION {[1..n -> BodyNodes] : n \in 0..MaxNodes} :
        \A k \in 1..(Len(d) - 1) : d[k].type # "text" \/ d[k + 1].type # "text"}

TextifyInit ==
    /\ tpc = "call"
    /\ body \in Bodies
    /\ text = <<>>

\* process(doc, &buffer, ""); s := strings.TrimSpace(buffer.String())
TextifyCall ==
    /\ tpc = "call"
    /\ text' = TrimSpace(processChildren(body, 1, <<>>))
    /\ tpc' = "done"
    /\ UNCHANGED <<body, fetchVars, linkVars, streamVars>>

TextifyStart == TextifyInit /\ FetchIdle /\ LinkIdle /\ StreamIdle

TextifySpec == TextifyStart /\ [][TextifyCall]_vars

(***************************************************************************)
(* Stream command: StreamListener and readStream (the madon library).      *)
(***************************************************************************)
\* a send on evChan: it panics on a closed channel and blocks while the buffer
\* is full
CanSend(ch) == ch.closed \/ Len(ch.buf) < EvChanCap

\* a send that does not queue the event behind the events already sent
SendOnUnordered(ch, ev) == IF ch.closed THEN ch ELSE [ch EXCEPT !.buf = <<ev>> \o @]

SendOn(ch, ev) == IF ch.closed THEN ch ELSE [ch EXCEPT !.buf = Append(@, ev)]
SendPanics(ch) == IF ch.closed THEN "send on closed channel" ELSE panicked

\* c.ReadJSON(&msg) returns a frame: decode it; the event is sent next
ReadFrame(i) ==
    /\ Running /\ rpc[i] = "read" /\ frames < MaxFrames
    /\ \E msg \in FrameSet :
         /\ rmsg' = [rmsg EXCEPT ![i] = Frame(msg)]
         /\ rev' = [rev EXCEPT ![i] = StreamEvent(i, handed[i] + 1, DecodeFrame(msg))]
    /\ frames' = frames + 1
    /\ rpc' = [rpc EXCEPT ![i] = "send"]
    /\ UNCHANGED <<nTags, mpc, opened, err, stop, evChan, handed, connDone, cpc,
                   fwpc, fwev, received, doneRecv, panicked>>
    /\ UNCHANGED <<fetchVars, linkVars, textVars, argVars>>

\* c.ReadJSON(&msg) fails with anything but a normal closure: an error event
\* is sent next, then the loop is left
ReadError(i) ==
    /\ Running /\ rpc[i] = "read"
    /\ \E e \in ReadErrors :
         ~IsNormalClose(e) /\ rmsg' = [rmsg EXCEPT ![i] = ReadFailed(e)]
    /\ rev' = [rev EXCEPT ![i] = StreamEvent(i, handed[i] + 1, "error")]
    /\ rpc' = [rpc EXCEPT ![i] = "sendLast"]
    /\ UNCHANGED <<nTags, mpc, opened, err, stop, evChan, frames, handed, connDone,
                   cpc, fwpc, fwev, received, doneRecv, panicked>>
    /\ UNCHANGED <<fetchVars, linkVars, textVars, argVars>>

\* c.ReadJSON(&msg) fails with "close 1000 (normal)": the peer has closed the
\* connection, of its own accord or in answer to our close message
ReadNormalClose(i) ==
    /\ Running /\ rpc[i] = "read"
    /\ \E e \in ReadErrors :
         IsNormalClose(e) /\ rmsg' = [rmsg EXCEPT ![i] = ReadFailed(e)]
    /\ rpc' = [rpc EXCEPT ![i] = "return"]
    /\ UNCHANGED <<nTags, mpc, opened, err, stop, evChan, rev, frames, handed,
                   connDone, cpc, fwpc, fwev, received, doneRecv, panicked>>
    /\ UNCHANGED <<fetchVars, linkVars, textVars, argVars>>

\* a read loop that goes on reading after every send
AfterSendKeepsReading(pc) == "read"

\* where readStream goes after a send
AfterSend(pc) == IF pc = "sendLast" THEN "return" ELSE "read"

\* msg and err after a send: they are the variables of one turn of the loop,
\* which the send ends (continue, break or the end of the body)
AfterSendMsg(m) == NoMsg

\* events <- StreamEvent{...} when events is evChan (only one stream)
ReaderSend(i) ==
    /\ Running /\ ~Several /\ rpc[i] \in {"send", "sendLast"}
    /\ CanSend(evChan)
    /\ panicked' = SendPanics(evChan)
    /\ evChan' = SendOn(evChan, rev[i])
    /\ IF evChan.closed
       THEN UNCHANGED <<rpc, rmsg, rev, handed>>
       ELSE /\ rpc' = [rpc EXCEPT ![i] = AfterSend(@)]
            /\ rmsg' = [rmsg EXCEPT ![i] = AfterSendMsg(@)]
            /\ rev' = [rev EXCEPT ![i] = NoEvent]
            /\ handed' = [handed EXCEPT ![i] = @ + 1]
    /\ UNCHANGED <<nTags, mpc, opened, err, stop, frames, connDone, cpc, fwpc,
                   fwev, received, doneRecv>>
    /\ UNCHANGED <<fetchVars, linkVars, textVars, argVars>>

\* a close(doneCh) after which the read loop goes on
ReaderReturnKeepsLoop(i) ==
    /\ Running /\ rpc[i] = "return"
    /\ rpc' = [rpc EXCEPT ![i] = "read"]
    /\ rmsg' = [rmsg EXCEPT ![i] = NoMsg]
    /\ connDone' = [connDone EXCEPT ![i] = TRUE]
    /\ cpc' = [cpc EXCEPT ![i] = IF @ = "wait" THEN "left" ELSE @]
    /\ panicked' = IF connDone[i] THEN "close of closed channel" ELSE panicked
    /\ UNCHANGED <<nTags, mpc, opened, err, stop, evChan, rev, frames, handed,
                   fwpc, fwev, received, doneRecv>>
    /\ UNCHANGED <<fetchVars, linkVars, textVars, argVars>>

\* the deferred close(doneCh) and c.Close() of readStream.  The helper
\* goroutine, if it still waits, takes its case <-doneCh and leaves: it does
\* nothing there, so its leaving is not a step of its own.
ReaderReturn(i) ==
    /\ Running /\ rpc[i] = "return"
    /\ rpc' = [rpc EXCEPT ![i] = "done"]
    /\ rmsg' = [rmsg EXCEPT ![i] = NoMsg]
    /\ connDone' = [connDone EXCEPT ![i] = TRUE]
    /\ cpc' = [cpc EXCEPT ![i] = IF @ = "wait" THEN "left" ELSE @]
    /\ panicked' = IF connDone[i] THEN "close of closed channel" ELSE panicked
    /\ UNCHANGED <<nTags, mpc, opened, err, stop, evChan, rev, frames, handed,
                   fwpc, fwev, received, doneRecv>>
    /\ UNCHANGED <<fetchVars, linkVars, textVars, argVars>>

\* readStream's helper goroutine: select on stopCh and doneCh.  When stopCh is
\* closed every helper that still waits writes the close message to its peer;
\* nothing in the process reads what it did, so the helpers' steps are taken
\* with the closing of stop.
WriteClose(c) == [i \in ConnIds |-> IF c[i] = "wait" THEN "sent" ELSE c[i]]

(***************************************************************************)
(* Stream command: the forwarding goroutines of streamRunE.                *)
(***************************************************************************)
\* case ev := <-tagEvCh[i]: tagEvCh[i] is unbuffered, so this is also the
\* completion of readStream's send
ForwardRecv(i) ==
    /\ Running /\ Several /\ fwpc[i] = "select"
    /\ rpc[i] \in {"send", "sendLast"}
    /\ fwpc' = [fwpc EXCEPT ![i] = "forward"]
    /\ fwev' = [fwev EXCEPT ![i] = rev[i]]
    /\ rpc' = [rpc EXCEPT ![i] = AfterSend(@)]
    /\ rmsg' = [rmsg EXCEPT ![i] = AfterSendMsg(@)]
    /\ rev' = [rev EXCEPT ![i] = NoEvent]
    /\ handed' = [handed EXCEPT ![i] = @ + 1]
    /\ UNCHANGED <<nTags, mpc, opened, err, stop, evChan, frames, connDone, cpc,
                   received, doneRecv, panicked>>
    /\ UNCHANGED <<fetchVars, linkVars, textVars, argVars>>

\* evChan <- ev
ForwardSend(i) ==
    /\ Running /\ fwpc[i] = "forward"
    /\ CanSend(evChan)
    /\ panicked' = SendPanics(evChan)
    /\ evChan' = SendOn(evChan, fwev[i])
    /\ IF evChan.closed
       THEN UNCHANGED <<fwpc, fwev>>
       ELSE /\ fwpc' = [fwpc EXCEPT ![i] = "select"]
            /\ fwev' = [fwev EXCEPT ![i] = NoEvent]
    /\ UNCHANGED <<nTags, mpc, opened, err, stop, rpc, rev, frames, handed,
                   connDone, cpc, received, doneRecv>>
    /\ UNCHANGED <<fetchVars, linkVars, textVars, argVars, rmsg>>

(***************************************************************************)
(* Stream command: the main goroutine of streamRunE.                       *)
(***************************************************************************)
\* a receive from done can complete: done is closed by the only readStream,
\* or (several streams) a forwarding goroutine is at done <- true.  A forwarding
\* goroutine at its select whose tagDoneCh[i] is closed can only take that case
\* (readStream has returned and sends no more), so it is at done <- true.
DoneSenders == {i \in ConnIds : Several /\ fwpc[i] = "select" /\ connDone[i]}
DoneClosed  == ~Several /\ connDone[1]

\* the arguments are parsed: args, arg are not read again; tag is read for
\* the only stream and hashTagList for several streams, and nothing else is
\* kept of them
CheckArgs ==
    /\ panicked = "" /\ mpc = "args"
    /\ \E r \in {parseArgs(args)} :
         /\ panicked' = r.panic
         /\ err' = r.err
         /\ streamName' = r.streamName
         /\ nTags' = Len(r.hashTagList)
         /\ tag' = IF Len(r.hashTagList) > 1 THEN <<>> ELSE r.tag
         /\ hashTagList' = IF Len(r.hashTagList) > 1 THEN r.hashTagList ELSE <<>>
         /\ mpc' = IF r.panic # "" THEN mpc
                   ELSE IF r.err # "" THEN "exit" ELSE "init"
    /\ args' = <<>>
    /\ UNCHANGED <<gClient, opened, stop, evChan, rpc, rev, frames, handed,
                   connDone, cpc, fwpc, fwev, received, doneRecv>>
    /\ UNCHANGED <<fetchVars, linkVars, textVars, rmsg>>

\* madonInit(true) succeeds
MadonInitOk ==
    /\ panicked = "" /\ mpc = "init"
    /\ gClient' = TRUE
    /\ mpc' = "open"
    /\ UNCHANGED <<args, streamName, tag, hashTagList, nTags, opened, err, stop,
                   evChan, rpc, rev, frames, handed, connDone, cpc, fwpc, fwev,
                   received, doneRecv, panicked>>
    /\ UNCHANGED <<fetchVars, linkVars, textVars, rmsg>>

\* madonInit(true) fails: return err
MadonInitFail ==
    /\ panicked = "" /\ mpc = "init"
    /\ err' = "init"
    /\ mpc' = "exit"
    /\ UNCHANGED <<args, streamName, tag, hashTagList, gClient, nTags, opened,
                   stop, evChan, rpc, rev, frames, handed, connDone, cpc, fwpc,
                   fwev, received, doneRecv, panicked>>
    /\ UNCHANGED <<fetchVars, linkVars, textVars, rmsg>>

\* the parameter StreamListener is given for connection i
StreamParam(i) == IF Several THEN hashTagList[i] ELSE tag

\* gClient.StreamListener(...) succeeds: the connection is open, its
\* readStream goroutine runs, and with several streams so does its forwarder
ListenerOk ==
    /\ panicked = "" /\ mpc = "open" /\ opened < NConn /\ NConn <= MaxTags
    /\ openStream(streamName, StreamParam(opened + 1)) = ""
    /\ LET i == opened + 1 IN
         /\ opened' = i
         /\ rpc' = [rpc EXCEPT ![i] = "read"]
         /\ cpc' = [cpc EXCEPT ![i] = "wait"]
         /\ fwpc' = [fwpc EXCEPT ![i] = IF Several THEN "select" ELSE "none"]
         /\ mpc' = IF i = NConn THEN "getPrinter" ELSE "open"
    /\ UNCHANGED <<nTags, err, stop, evChan, rev, frames, handed, connDone, fwev,
                   received, doneRecv, panicked>>
    /\ UNCHANGED <<fetchVars, linkVars, textVars, argVars, rmsg>>

\* a failed open that leaves the connections opened so far alone
ListenerFailNoCancel ==
    /\ panicked = "" /\ mpc = "open" /\ opened < NConn /\ NConn <= MaxTags
    /\ err' = "open"
    /\ mpc' = "exit"
    /\ UNCHANGED <<nTags, opened, stop, evChan, rpc, rev, frames, handed, connDone,
                   cpc, fwpc, fwev, received, doneRecv, panicked>>
    /\ UNCHANGED <<fetchVars, linkVars, textVars, argVars, rmsg>>

\* a failed open after which main goes on to the end of streamRunE
ListenerFailThenClose ==
    /\ panicked = "" /\ mpc = "open" /\ opened < NConn /\ NConn <= MaxTags
    /\ stop' = (Several /\ opened > 0)
    /\ cpc' = IF Several /\ opened > 0 THEN WriteClose(cpc) ELSE cpc
    /\ err' = "open"
    /\ mpc' = "closeStop"
    /\ UNCHANGED <<nTags, opened, evChan, rpc, rev, frames, handed, connDone,
                   fwpc, fwev, received, doneRecv, panicked>>
    /\ UNCHANGED <<fetchVars, linkVars, textVars, argVars, rmsg>>

\* gClient.StreamListener(...) fails: with several streams and i > 0 the
\* previous connections are closed; then the error is printed and os.Exit(1)
ListenerFail ==
    /\ panicked = "" /\ mpc = "open" /\ opened < NConn /\ NConn <= MaxTags
    /\ stop' = (Several /\ opened > 0)
    /\ cpc' = IF Several /\ opened > 0 THEN WriteClose(cpc) ELSE cpc
    /\ err' = "open"
    /\ mpc' = "exit"
    /\ UNCHANGED <<nTags, opened, evChan, rpc, rev, frames, handed, connDone,
                   fwpc, fwev, received, doneRecv, panicked>>
    /\ UNCHANGED <<fetchVars, linkVars, textVars, argVars, rmsg>>

\* p, err := getPrinter() succeeds
GetPrinterOk ==
    /\ panicked = "" /\ mpc = "getPrinter"
    /\ mpc' = "listen"
    /\ UNCHANGED <<nTags, opened, err, stop, evChan, rpc, rev, frames, handed,
                   connDone, cpc, fwpc, fwev, received, doneRecv, panicked>>
    /\ UNCHANGED <<fetchVars, linkVars, textVars, argVars, rmsg>>

\* p, err := getPrinter() fails
GetPrinterFail ==
    /\ panicked = "" /\ mpc = "getPrinter"
    /\ err' = "printer"
    /\ mpc' = "closeStop"
    /\ UNCHANGED <<nTags, opened, stop, evChan, rpc, rev, frames, handed, connDone,
                   cpc, fwpc, fwev, received, doneRecv, panicked>>
    /\ UNCHANGED <<fetchVars, linkVars, textVars, argVars, rmsg>>

\* LISTEN, case v, ok := <-done with !ok || v == true: break LISTEN
ListenDone ==
    /\ panicked = "" /\ mpc = "listen"
    /\ \/ DoneClosed /\ UNCHANGED fwpc
       \/ \E i \in DoneSenders : fwpc' = [fwpc EXCEPT ![i] = "returned"]
    /\ doneRecv' = doneRecv + 1
    /\ mpc' = "closeStop"
    /\ UNCHANGED <<nTags, opened, err, stop, evChan, rpc, rev, frames, handed,
                   connDone, cpc, fwev, received, panicked>>
    /\ UNCHANGED <<fetchVars, linkVars, textVars, argVars, rmsg>>

\* LISTEN, case ev := <-evChan: the event is printed; printObj succeeds
ListenEvent ==
    /\ panicked = "" /\ mpc = "listen"
    /\ evChan.buf # <<>>
    /\ LET ev == Head(evChan.buf) IN
         received' = [received EXCEPT ![ev.conn] = Append(@, ev.seq)]
    /\ evChan' = [evChan EXCEPT !.buf = Tail(@)]
    /\ UNCHANGED <<nTags, mpc, opened, err, stop, rpc, rev, frames, handed,
                   connDone, cpc, fwpc, fwev, doneRecv, panicked>>
    /\ UNCHANGED <<fetchVars, linkVars, textVars, argVars, rmsg>>

\* LISTEN, case ev := <-evChan with an update whose printObj fails: break LISTEN
ListenPrintError ==
    /\ panicked = "" /\ mpc = "listen"
    /\ evChan.buf # <<>>
    /\ Head(evChan.buf).Event = "update"
    /\ LET ev == Head(evChan.buf) IN
         received' = [received EXCEPT ![ev.conn] = Append(@, ev.seq)]
    /\ evChan' = [evChan EXCEPT !.buf = Tail(@)]
    /\ err' = "print"
    /\ mpc' = "closeStop"
    /\ UNCHANGED <<nTags, opened, stop, rpc, rev, frames, handed, connDone, cpc,
                   fwpc, fwev, doneRecv, panicked>>
    /\ UNCHANGED <<fetchVars, linkVars, textVars, argVars, rmsg>>

\* close(stop), after LISTEN or after getPrinter failed
CloseStop ==
    /\ panicked = "" /\ mpc = "closeStop"
    /\ stop' = TRUE
    /\ cpc' = WriteClose(cpc)
    /\ panicked' = IF stop THEN "close of closed channel" ELSE panicked
    /\ mpc' = IF err = "printer" THEN "waitDone" ELSE "closeEv"
    /\ UNCHANGED <<nTags, opened, err, evChan, rpc, rev, frames, handed, connDone,
                   fwpc, fwev, received, doneRecv>>
    /\ UNCHANGED <<fetchVars, linkVars, textVars, argVars, rmsg>>

\* <-done, after getPrinter failed
WaitDone ==
    /\ panicked = "" /\ mpc = "waitDone"
    /\ \/ DoneClosed /\ UNCHANGED fwpc
       \/ \E i \in DoneSenders : fwpc' = [fwpc EXCEPT ![i] = "returned"]
    /\ mpc' = "closeEv"
    /\ UNCHANGED <<nTags, opened, err, stop, evChan, rpc, rev, frames, handed,
                   connDone, cpc, fwev, received, doneRecv, panicked>>
    /\ UNCHANGED <<fetchVars, linkVars, textVars, argVars, rmsg>>

\* close(evChan)
CloseEv ==
    /\ panicked = "" /\ mpc = "closeEv"
    /\ evChan' = [evChan EXCEPT !.closed = TRUE]
    /\ panicked' = IF evChan.closed THEN "close of closed channel" ELSE panicked
    /\ mpc' = "exit"
    /\ UNCHANGED <<nTags, opened, err, stop, rpc, rev, frames, handed, connDone,
                   cpc, fwpc, fwev, received, doneRecv>>
    /\ UNCHANGED <<fetchVars, linkVars, textVars, argVars, rmsg>>

\* return nil or os.Exit(1): the process ends, and its goroutines with it
Exit ==
    /\ panicked = "" /\ mpc = "exit"
    /\ mpc' = "exited"
    /\ UNCHANGED <<nTags, opened, err, stop, evChan, rpc, rev, frames, handed,
                   connDone, cpc, fwpc, fwev, received, doneRecv, panicked>>
    /\ UNCHANGED <<fetchVars, linkVars, textVars, argVars, rmsg>>

(***************************************************************************)
(* Stream command: the specification.                                      *)
(***************************************************************************)
\* what the remote peers and the network do
RemoteStep ==
    \E i \in ConnIds : ReadFrame(i) \/ ReadError(i) \/ ReadNormalClose(i)

\* what the goroutines of the process do
GoroutineStep ==
    \E i \in ConnIds :
        \/ ReaderSend(i) \/ ReaderReturn(i)
        \/ ForwardRecv(i) \/ ForwardSend(i)

MainStep ==
    \/ CheckArgs \/ MadonInitOk \/ MadonInitFail
    \/ ListenerOk \/ ListenerFail
    \/ GetPrinterOk \/ GetPrinterFail
    \/ ListenDone \/ ListenEvent \/ ListenPrintError
    \/ CloseStop \/ WaitDone \/ CloseEv \/ Exit

Init == StreamInit /\ FetchIdle /\ LinkIdle /\ TextIdle

Next == RemoteStep \/ GoroutineStep \/ MainStep

Spec == Init /\ [][Next]_vars

\* the Go scheduler runs every goroutine that can take a step; nothing makes
\* a remote peer send a frame, fail or close
FairSpec == Spec /\ WF_vars(GoroutineStep \/ MainStep)

(***************************************************************************)
(* StreamListener called by itself: a caller that has a client hands it any *)
(* feed name and parameter, and then goes on as streamRunE does with its   *)
(* only stream.                                                            *)
(***************************************************************************)
\* the feed names openStream accepts
FeedNames == {"user", "public", "public:local", "direct", "hashtag", "list"}

\* the names and parameters StreamListener is called with
ListenerNames  == FeedNames \cup {"", "local", "tag", "home"}
ListenerParams == {<<>>, <<"a">>, <<"4", "2">>}

ListenerInit ==
    /\ args = <<>>
    /\ streamName \in ListenerNames
    /\ tag \in ListenerParams
    /\ hashTagList = <<>>
    /\ gClient = TRUE
    /\ nTags = 0
    /\ mpc = "open"
    /\ opened = 0
    /\ err = ""
    /\ stop = FALSE
    /\ evChan = [buf |-> <<>>, closed |-> FALSE]
    /\ rpc = [i \in ConnIds |-> "none"]
    /\ rmsg = [i \in ConnIds |-> NoMsg]
    /\ rev = [i \in ConnIds |-> NoEvent]
    /\ frames = 0
    /\ handed = [i \in ConnIds |-> 0]
    /\ connDone = [i \in ConnIds |-> FALSE]
    /\ cpc = [i \in ConnIds |-> "none"]
    /\ fwpc = [i \in ConnIds |-> "none"]
    /\ fwev = [i \in ConnIds |-> NoEvent]
    /\ received = [i \in ConnIds |-> <<>>]
    /\ doneRecv = 0
    /\ panicked = ""

ListenerNext ==
    \/ \E i \in ConnIds : ReadFrame(i) \/ ReadError(i) \/ ReadNormalClose(i)
    \/ \E i \in ConnIds : ReaderSend(i) \/ ReaderReturn(i)
    \/ ListenerOk \/ ListenerFail
    \/ GetPrinterOk \/ GetPrinterFail
    \/ ListenDone \/ ListenEvent \/ ListenPrintError
    \/ CloseStop \/ WaitDone \/ CloseEv \/ Exit

ListenerStart == ListenerInit /\ FetchIdle /\ LinkIdle /\ TextIdle

ListenerSpec == ListenerStart /\ [][ListenerNext]_vars

(***************************************************************************)
(* Paged fetch: properties.                                                *)
(***************************************************************************)
\* a reply that makes its request fail: request failure, link-header parse
\* error, error reply or decode failure
ReplyFails(reply) ==
    \/ reply.net = "fail"
    \/ reply.link \in {BadUrlHeader, BadLimitHeader}
    \/ reply.kind \in {"errobj", "garbage"}

\* the items of replies 1..k, in page order and in within-page order
RECURSIVE ItemsUpTo(_)
ItemsUpTo(k) == IF k = 0 THEN <<>> ELSE ItemsUpTo(k - 1) \o resps[k].items

FetchAll == lopt # NIL /\ Deref(lopt).All
Quota    == IF lopt = NIL THEN 0 ELSE Deref(lopt).Limit

\* C1 (as claimed): when request k > 1 fails, the fetch returns a non-nil error
\* together with the items of requests 1..k-1, in order.
C1_PartialResultsOnFailure ==
    (fpc = "done" /\ Len(resps) > 1 /\ ReplyFails(resps[Len(resps)]))
        => (ferr # "" /\ fret = ItemsUpTo(Len(resps) - 1))

\* C4: a fetch with All set and no failing request, against pages of which
\* exactly the first N-1 carry a next cursor, issues exactly N requests and
\* returns the items of all N pages in page order and within-page order.
C4_FetchAllReturnsAllPages ==
    (fpc = "done" /\ FetchAll /\ \A k \in 1..Len(resps) : ~ReplyFails(resps[k]))
        => LET N == Len(resps) IN
           /\ Len(reqs) = N
           /\ \A k \in 1..(N - 1) : GivesNext(resps[k].link)
           /\ ~GivesNext(resps[N].link)
           /\ ferr = ""
           /\ fret = ItemsUpTo(N)

\* two pages of 20 and 5 items: 25 items after 2 requests
C4_Witness ==
    /\ fpc = "done" /\ FetchAll /\ ferr = ""
    /\ Len(reqs) = 2
    /\ Len(resps[1].items) = 20 /\ Len(resps[2].items) = 5
    /\ Len(fret) = 25

\* C5: with a quota Q and All unset, every continuation request was issued
\* with fewer than Q items accumulated and after a reply with a next cursor,
\* and the fetch returns after the first reply that brings the accumulator to
\* Q items or carries no next cursor.
C5_NoRequestOnceQuotaReached ==
    (lopt # NIL /\ ~FetchAll)
        => /\ \A k \in 2..Len(reqs) :
                /\ Len(ItemsUpTo(k - 1)) < Quota
                /\ GivesNext(resps[k - 1].link)
                /\ ~ReplyFails(resps[k - 1])
           /\ (fpc = "done" /\ ferr = "")
                => \/ Len(ItemsUpTo(Len(resps))) >= Quota
                   \/ ~GivesNext(resps[Len(resps)].link)

\* the quota stops the fetch although the last reply carries a next cursor
C5_Witness ==
    /\ fpc = "done" /\ lopt # NIL /\ ~FetchAll /\ ferr = ""
    /\ Len(reqs) = 2
    /\ Len(resps[1].items) < Quota
    /\ Len(fret) >= Quota
    /\ GivesNext(resps[2].link)

\* C10: when the first request fails, the fetch returns an error and no
\* items, and issues no further request.
C10_FirstPageFailure ==
    (Len(resps) >= 1 /\ ReplyFails(resps[1]))
        => (fpc = "done" /\ ferr # "" /\ fret = <<>> /\ Len(reqs) = 1)

\* the first reply is an error object, the fetch has returned its error
C10_Witness ==
    /\ Len(resps) = 1 /\ resps[1].kind = "errobj"
    /\ fpc = "done" /\ ferr # "" /\ fret = <<>>

\* the next cursor of a Link header, nil when it has none
NextCursor(h) ==
    LET r == parseLink(h) IN IF r.al = NIL THEN NIL ELSE Deref(r.al).next

\* the paging parameters (a pointer, nil for none) request k is made for: the
\* caller's for the first request, then the next cursor of the response before
CursorUsed(k) == IF k = 1 THEN lopt ELSE NextCursor(resps[k - 1].link)

\* C18 (as claimed): a request carries since_id only if the since bound of
\* its paging parameters is set, max_id only if the max bound is set, limit
\* only if the page size is positive, and never an empty or zero value.
C18_UnsetBoundsAreOmitted ==
    \A k \in 1..Len(reqs) :
        LET c == CursorUsed(k) IN
        /\ reqs[k].since_id # NIL => (c # NIL /\ Deref(c).SinceID # "")
        /\ reqs[k].max_id # NIL => (c # NIL /\ Deref(c).MaxID # "")
        /\ reqs[k].limit # NIL => (c # NIL /\ Deref(c).Limit > 0)
        /\ reqs[k].since_id # Ptr("") /\ reqs[k].max_id # Ptr("")
        /\ reqs[k].limit # Ptr("0")

\* C19 (as claimed): the since_id, max_id and limit of every continuation
\* request are exactly the fields the next cursor of the response before it
\* has: a field the cursor has is sent with the cursor's value, a field it
\* does not have is not sent.
C19_ContinuationUsesNextCursor ==
    \A k \in 2..Len(reqs) :
        LET lo == Deref(NextCursor(resps[k - 1].link)) IN
        /\ reqs[k].since_id = IF lo.SinceID # "" THEN Ptr(lo.SinceID) ELSE NIL
        /\ reqs[k].max_id = IF lo.MaxID # "" THEN Ptr(lo.MaxID) ELSE NIL
        /\ reqs[k].limit = IF lo.Limit > 0 THEN Ptr(Itoa(lo.Limit)) ELSE NIL

\* the loop goes on after response k: the condition of getMultipleAccounts'
\* for loop, from the options all and limit and the responses so far
GoesOn(k) ==
    /\ opt.all \/ opt.limit > 0
    /\ opt.all \/ opt.limit > Len(ItemsUpTo(k))
    /\ GivesNext(resps[k].link)

\* C22: a fetch that succeeds returns the whole pages of its responses, in
\* order; the number of requests it issues follows from all, limit and the
\* responses alone, whatever keep is; and the command's trim gives the first
\* min(keep, n) of the n items returned for keep > 0, all n for keep = 0.
C22_KeepTrimsAfterFetch ==
    /\ (fpc \in {"done", "kept"} /\ ferr = "")
          => /\ fret = ItemsUpTo(Len(resps))
             /\ \A k \in 1..(Len(reqs) - 1) : GoesOn(k)
             /\ ~GoesOn(Len(reqs))
    /\ fpc = "kept"
          => LET n == Len(fret)
                 m == IF opt.keep = 0 \/ n < opt.keep THEN n ELSE opt.keep
             IN  /\ accountList = [i \in 1..m |-> fret[i]]
                 /\ Len(reqs) = Len(resps)

\* two pages of 2 items each were fetched with keep = 3: 3 items are kept
C22_Witness ==
    /\ fpc = "kept" /\ ferr = "" /\ opt.keep = 3
    /\ Len(reqs) = 2 /\ Len(fret) = 4 /\ Len(accountList) = 3

\* C26: the links the loop decides on are those of the latest response alone:
\* while the fetch is in its loop, links.next is the next cursor of the last
\* response (nil when that response has no Link header or no next entry with
\* a bound), and every response but the last carried a next cursor, so the
\* loop stops after the first response that carries none.
C26_LinksOfLatestResponseOnly ==
    /\ fpc = "loop" => links.next = NextCursor(resps[Len(resps)].link)
    /\ \A k \in 1..(Len(reqs) - 1) : GivesNext(resps[k].link)

\* response 1 carried a next cursor, response 2 no Link header: the fetch of
\* all pages has stopped after page 2
C26_Witness ==
    /\ fpc = "done" /\ ferr = "" /\ FetchAll
    /\ Len(reqs) = 2
    /\ GivesNext(resps[1].link) /\ resps[2].link = <<>>

\* C28 (as claimed): apiCall leaves the caller's parameter map as it was
\* given: the map holds the caller's entries and neither limit nor since_id
\* nor max_id, before and after every request.
C28_ParamsMapUnchanged ==
    params # NIL
        => /\ Deref(params).limit = NIL
           /\ Deref(params).since_id = NIL
           /\ Deref(params).max_id = NIL

\* C25 (as claimed): every request of a fetch, the first and each
\* continuation, carries the fixed parameters of the caller (here the
\* exclude_types of GetNotifications).
C25_FixedParamsOnEveryRequest ==
    params # NIL
        => \A k \in 1..Len(reqs) :
               reqs[k].exclude_types = Deref(params).exclude_types

(***************************************************************************)
(* parseLink: properties.                                                  *)
(***************************************************************************)
\* every URL is well formed and every limit is an integer
WellFormed(h) ==
    \A k \in 1..Len(h) : h[k].url = "ok" /\ h[k].lim \in {"", "0", "1", "2", "20"}

Bounded(e) == e.since # "" \/ e.max # ""

\* the cursor an entry holds: its since bound, max bound and page size
Cursor(e) ==
    [Limit |-> CASE e.lim = "20" -> 20 [] e.lim = "2" -> 2 [] e.lim = "1" -> 1
                 [] OTHER -> 0,
     SinceID |-> e.since, MaxID |-> e.max, All |-> FALSE]

\* got (a pointer) is the cursor of an entry of h with this rel that has a
\* bound, or nil when h has no such entry
RelIs(h, rel, got) ==
    LET c == {k \in 1..Len(h) : h[k].rel = rel /\ Bounded(h[k])} IN
    IF c = {} THEN got = NIL ELSE \E k \in c : got = Ptr(Cursor(h[k]))

\* C20: for well-formed link entries parseLink returns no error, next is the
\* cursor of an entry with rel next that has a bound (nil when there is
\* none), prev likewise for rel prev; entries with neither bound or with
\* another rel contribute nothing; no entries give no links.
C20_ParseLink ==
    (ppc = "done" /\ WellFormed(header))
        => LET al == IF pLinks.al = NIL THEN [next |-> NIL, prev |-> NIL]
                     ELSE Deref(pLinks.al) IN
           /\ ~pLinks.err
           /\ RelIs(header, "next", al.next)
           /\ RelIs(header, "prev", al.prev)

\* <https://x/?max_id=50&limit=20>; rel="next" has been parsed to a next
\* cursor with max 50 and page size 20, and no prev
C20_Witness ==
    /\ ppc = "done"
    /\ header = <<[url |-> "ok", since |-> "", max |-> "50", lim |-> "20",
                   rel |-> "next"]>>
    /\ ~pLinks.err
    /\ pLinks.al = <<[next |-> <<[Limit |-> 20, SinceID |-> "", MaxID |-> "50",
                                  All |-> FALSE]>>,
                      prev |-> <<>>]>>

\* a link entry whose URL is malformed or whose limit is not an integer
BadEntry(e) == e.url = "bad" \/ (e.lim # "" /\ ~Atoi(e.lim).ok)

\* C21 (as claimed): when any link entry of a response has a malformed URL or
\* a limit that is not an integer, parseLink returns an error; no such entry
\* is passed over in silence.
C21_BadEntryIsParseError ==
    (ppc = "done" /\ \E k \in 1..Len(header) : BadEntry(header[k]))
        => pLinks.err

(***************************************************************************)
(* Stream command: properties.                                             *)
(***************************************************************************)
\* connection i is open: its read loop has not left its for loop
Open(i) == rpc[i] \in {"read", "send"}

\* C2 (as claimed): with several hashtag feeds, the end-of-stream signal that
\* ends the listen loop is received at most once and never before every
\* connection has reached a terminal state (read loop returned, done closed).
C2_DoneAfterAllConnections ==
    Several => /\ doneRecv <= 1
               /\ doneRecv >= 1 => \A i \in 1..NConn : connDone[i]

\* C3 (as claimed): once stop is closed, every connection that is open
\* eventually has its read loop returned and its done channel closed, whatever
\* the peer does.  (A process that has exited or panicked has no connections.)
C3_DoneAfterStop ==
    \A i \in ConnIds :
        (stop /\ rpc[i] \notin {"none", "done"})
            ~> (connDone[i] \/ mpc = "exited" \/ panicked # "")

\* C6 (as claimed): with several connections, as long as main has met no
\* error of its own (open, printer), the end of one connection neither closes
\* stop nor ends the listen loop while another connection is still open.
C6_FaultDoesNotCancelSiblings ==
    (Several /\ err = "" /\ \E j \in ConnIds : Open(j))
        => (~stop /\ mpc \in {"open", "getPrinter", "listen"})

\* C7 (as claimed): when the listen loop ends, every event a read loop has
\* handed to its event channel has been processed by the loop exactly once;
\* none is left in the shared output channel.
C7_EveryEventProcessedOnce ==
    (mpc = "closeStop" /\ err # "printer")
        => /\ evChan.buf = <<>>
           /\ \A i \in ConnIds : received[i] = [k \in 1..handed[i] |-> k]

\* C8 (as claimed): once main has closed the shared output channel, no read
\* loop and no forwarding goroutine sends on it.
C8_NoSendAfterClose == panicked # "send on closed channel"

\* C9: the events of one connection are processed by the listen loop in the
\* order the connection emitted them, whatever the other connections do.
C9_PerConnectionOrder ==
    \A i \in ConnIds :
        \A a, b \in 1..Len(received[i]) : a < b => received[i][a] < received[i][b]

\* two events of one connection and an event of another have been processed
C9_Witness ==
    /\ Several
    /\ \E i, j \in ConnIds :
         i # j /\ Len(received[i]) = 2 /\ Len(received[j]) >= 1

\* the names between the commas of a hashtag argument (none for the other
\* arguments)
NamesGiven(a) ==
    IF Len(a) = 1 /\ Len(a[1]) > 0 /\ a[1][1] \in {"#", ":"}
    THEN Split(Tail(a[1]), ",") ELSE <<>>

\* a name that is empty, with or without its prefix character
EmptyName(n) == n \in {<<>>, <<"#">>, <<":">>}

\* C11 (as claimed): a hashtag argument with an empty feed identifier in any
\* position is rejected with the error "empty hashtag" when the arguments are
\* parsed: the command neither crashes nor goes on to open a connection.
C11_EmptyFeedIdRejected ==
    [][(mpc = "args" /\ \E k \in 1..Len(NamesGiven(args)) :
                            EmptyName(NamesGiven(args)[k]))
          => (err' = "empty hashtag" /\ panicked' = "" /\ mpc' = "exit")]_vars

C13_OpenFailureClosesStop ==
    (Several /\ err = "open")
        => /\ mpc \in {"exit", "exited"}
           /\ opened < nTags
           /\ opened > 0 => (stop /\ \A i \in 1..opened : cpc[i] # "wait")

\* the second connection could not be opened, the first has been cancelled
C13_Witness ==
    /\ Several /\ err = "open" /\ opened = 1 /\ stop /\ mpc = "exited"

\* the read loop of connection i hands the event it holds to its event channel
HandsOver(i) ==
    /\ handed'[i] = handed[i] + 1
    /\ IF Several THEN fwev'[i] = rev[i]
       ELSE evChan'.buf = Append(evChan.buf, rev[i])

\* what was read cannot be parsed: the frame is not the JSON text of a
\* message, or its payload is not the JSON text of the entity it announces
Unparseable(m) ==
    \/ m.err = "invalid character"
    \/ m.err = "" /\ m.Event \in {"update", "notification"} /\ m.Payload # "entity"
    \/ m.err = "" /\ m.Event = "delete" /\ m.Payload = "notstring"

\* C14 (as claimed): a connection that has received an unparseable frame
\* sends one Error event and goes on reading; it does not leave its loop.
C14_UnparseableFrameContinues ==
    \A i \in ConnIds :
        Unparseable(rmsg[i]) => (rpc[i] = "send" /\ rev[i].Event = "error")

\* the read has failed, and not with a normal closure
Fault(m) == m.err \notin {"", "websocket: close 1000 (normal)"}

\* C15: after a read that fails with anything but a normal closure, the
\* connection holds one Error event, hands it to its event channel before its
\* done is closed, then returns; once it has left its loop it hands over
\* nothing more and reads no more.
C15_FaultOneErrorThenTeardown ==
    /\ [](\A i \in ConnIds :
            Fault(rmsg[i])
                => (rpc[i] = "sendLast" /\ rev[i].Event = "error" /\ ~connDone[i]))
    /\ [][\A i \in ConnIds :
            /\ (rpc[i] = "sendLast" /\ rpc'[i] # "sendLast")
                  => (HandsOver(i) /\ rpc'[i] = "return" /\ ~connDone'[i])
            /\ rpc[i] \in {"return", "done"}
                  => (rpc'[i] \in {"return", "done"} /\ handed'[i] = handed[i])]_vars

\* no frame was read, one connection has handed over its one event (that of
\* a failed read) and has then closed its done channel
C15_Witness ==
    \E i \in ConnIds :
        frames = 0 /\ handed[i] = 1 /\ rpc[i] = "done" /\ connDone[i]

\* a frame whose event name readStream does not handle
Unhandled(m) ==
    m.err = "" /\ m.Event \notin {"", "update", "notification", "delete"}

\* C16: a frame with an event name other than update, notification and
\* delete makes the read loop hold an Error event (not a typed event), hand
\* exactly that event to the event channel and go back to reading.
C16_UnknownEventIsError ==
    /\ [](\A i \in ConnIds :
            Unhandled(rmsg[i]) => (rpc[i] = "send" /\ rev[i].Event = "error"))
    /\ [][\A i \in ConnIds :
            (Unhandled(rmsg[i]) /\ rmsg'[i] # rmsg[i])
                => (HandsOver(i) /\ rpc'[i] = "read")]_vars

\* a frame of an unknown name has been read and decoded into an Error event,
\* which the read loop is about to send
C16_Witness ==
    \E i \in ConnIds :
        Unhandled(rmsg[i]) /\ rpc[i] = "send" /\ rev[i].Event = "error"

\* C17: after a read that fails with a normal closure the connection holds no
\* event and hands none over; the read loop has returned, and the next thing
\* the connection does is to close its done channel.
C17_CleanCloseIsNoFault ==
    /\ [](\A i \in ConnIds :
            rmsg[i].err = "websocket: close 1000 (normal)"
                => (rpc[i] = "return" /\ rev[i] = NoEvent /\ ~connDone[i]))
    /\ [][\A i \in ConnIds :
            rmsg[i].err = "websocket: close 1000 (normal)"
                => /\ handed'[i] = handed[i]
                   /\ rev'[i] = NoEvent
                   /\ rmsg'[i] # rmsg[i] => (connDone'[i] /\ rpc'[i] = "done")]_vars

\* no frame was read, a connection has ended without handing over any event
C17_Witness ==
    \E i \in ConnIds :
        frames = 0 /\ handed[i] = 0 /\ rpc[i] = "done" /\ connDone[i]

\* StreamListener refuses to open connection i: openStream returns an error
\* before it dials
Refused(i) ==
    streamName \notin FeedNames
        \/ (streamName \in {"hashtag", "list"} /\ StreamParam(i) = <<>>)

C24_StopClosedOnceForAll ==
    /\ stop => mpc \in {"waitDone", "closeEv", "exit", "exited"}
    /\ stop => \A i \in 1..opened : cpc[i] # "wait"
    /\ (\E i \in ConnIds : cpc[i] = "sent") => stop

\* the listen loop has ended with the end of one connection, stop has been
\* closed and the helper of the other connection has acted on it
C24_Witness ==
    /\ Several /\ stop /\ err = "" /\ mpc = "exited"
    /\ \E i, j \in 1..opened : cpc[i] = "left" /\ cpc[j] = "sent"

\* C27: the done channel of a connection is closed exactly when its read loop
\* has returned, by the step that returns from readStream and by no other,
\* so it is closed once; from then on the connection holds no event, hands
\* over no event and does not go back into its loop.
C27_DoneClosedOnceAtReturn ==
    /\ [](\A i \in ConnIds :
            /\ connDone[i] <=> rpc[i] = "done"
            /\ connDone[i] => rev[i] = NoEvent)
    /\ [][\A i \in ConnIds :
            /\ (~connDone[i] /\ connDone'[i]) => rpc[i] = "return"
            /\ connDone[i] => /\ connDone'[i] /\ rpc'[i] = "done"
                               /\ handed'[i] = handed[i]
                               /\ rev'[i] = NoEvent]_vars

\* a connection has read a frame, handed over its event, which the listen
\* loop has processed, and has then closed its done channel
C27_Witness ==
    \E i \in ConnIds :
        /\ frames = 1 /\ handed[i] = 1 /\ received[i] = <<1>>
        /\ rpc[i] = "done" /\ connDone[i]

\* the listen loop has run and has ended, and main has closed stop
ListenEnded ==
    stop /\ err \in {"", "print"} /\ mpc \in {"closeEv", "exit", "exited"}

\* C29 (as claimed): with several streams, once the listen loop has ended and
\* stop is closed, every forwarding goroutine that was started comes to
\* return: none stays for ever at its select, at its send on evChan or at its
\* send on done.
C29_ForwardersTerminate ==
    \A i \in ConnIds :
        (Several /\ ListenEnded /\ fwpc[i] # "none") ~> (fwpc[i] = "returned")

(***************************************************************************)
(* Textify: properties.                                                    *)
(***************************************************************************)
\* C30 (as claimed): for a document of text without newline characters and
\* of line-breaking elements, the text Textify returns never holds two
\* newlines in a row.
C30_NoTwoNewlinesInARow ==
    tpc = "done"
        => \A k \in 1..(Len(text) - 1) : ~(text[k] = NL /\ text[k + 1] = NL)

=============================================================================
